---- MODULE Spec2Model ----
(***************************************************************************)
(* Model of xeggex.py: the XeggeXClient WebSocket multiplexer (ws_get,      *)
(* ws_listener, WSListenerContext) and the facade operations that guard     *)
(* their arguments (private, ws_cancel_order, create_order, ...).           *)
(*                                                                          *)
(* Python values are modelled as strings ("None", "limit", ...); a raised   *)
(* exception is the name of its class.  Every await that can suspend the    *)
(* coroutine ends an action; code between two such awaits is one action.    *)
(***************************************************************************)
EXTENDS Integers, Sequences, FiniteSets, TLC

\* ------------------------------------------------------------------ bounds
\* number of ids the model lets next(self.id) hand out
MaxRequests == 2
\* number of messages the peer puts on the sockets in one behaviour
MaxFrames == 2

\* connections a client opens (each websocket_context() call is a new one)
Conns == {"c1", "c2"}
\* coroutines of the application that call the client
Tasks == {"t1", "t2"}
ConnOrder == [c \in Conns |-> IF c = "c1" THEN 1 ELSE 2]
TaskOrder == [t \in Tasks |-> IF t = "t1" THEN 1 ELSE 2]

\* ------------------------------------------------------------ Python values
None == "None"
NoField == "absent"     \* a key that is not present in a JSON object
NoId == -1              \* the same for the integer key 'id'
NoMsg == [type |-> "none", json |-> "none", id |-> -1, method |-> "absent",
          ws |-> "none", n |-> 0]
NoFrame == [method |-> "none"]
NoReq == [verb |-> "none"]

NoParams == [k \in {} |-> None]       \* the dict {}

\* `not value` of Python for the values the model uses
falsy(value) == value \in {None, "0", "False", ""}

\* ---------------------------------------------------------- subscriptions
StreamNames == {"ticker", "orderbook", "trades", "candles", "reports"}

subscriptions ==
    [s \in StreamNames |->
        CASE s = "ticker"    -> [message |-> "subscribeTicker",
                                 methods |-> {"ticker"}]
          [] s = "orderbook" -> [message |-> "subscribeOrderbook",
                                 methods |-> {"snapshotOrderbook", "updateOrderbook"}]
          [] s = "trades"    -> [message |-> "subscribeTrades",
                                 methods |-> {"snapshotTrades", "updateTrades"}]
          [] s = "candles"   -> [message |-> "subscribeCandles",
                                 methods |-> {"snapshotCandles", "updateCandles"}]
          [] s = "reports"   -> [message |-> "subscribeReports",
                                 methods |-> {"activeOrders", "report"}]]

\* ------------------------------------------------------------------- state
VARIABLES
    auth,          \* self.auth: None or the Auth object
    id,            \* the value the next next(self.id) returns
    ws_responses,  \* self.ws_responses: key -> queue (a defaultdict(Queue))
    sock,          \* per connection: state and the messages not yet received
    sent,          \* per connection: the frames written with send_str
    listener,      \* per connection: the task running ws_listener
    task,          \* per application coroutine: the call it is in
    http,          \* the HTTP requests issued through self.session
    readers,       \* per connection: who has called ws.receive() on it
    routed,        \* the TEXT messages ws_listener has parsed, in order, each
                   \* with whether a ws_get call was waiting for its id
    nframes        \* number of messages the peer has produced

vars == <<auth, id, ws_responses, sock, sent, listener, task, http,
          readers, routed, nframes>>

\* ----------------------------------------------------------------- inputs
\* ids and methods the peer may put in a TEXT message; the ids are those of
\* the protocol, the integers ws_get hands out; "pong" is a method that no
\* entry of subscriptions lists
FrameIds == {NoId} \cup (0 .. MaxRequests - 1)
FrameMethods == {NoField, "ticker", "updateOrderbook", "pong"}

\* the messages ws.receive() can return
TextMsgs == {m \in [type : {"TEXT"}, json : {"ok"}, id : FrameIds,
                     method : FrameMethods] :
                 m.id # NoId \/ m.method # NoField}
Malformed == [type |-> "TEXT", json |-> "malformed", id |-> NoId, method |-> NoField]
ControlMsgs == {[type |-> t, json |-> "none", id |-> NoId, method |-> NoField] :
                   t \in {"ERROR", "CLOSED", "BINARY"}}
PeerMsgs == TextMsgs \cup {Malformed} \cup ControlMsgs

\* a message on a socket: what the peer sent, the connection, its arrival number
stamp(m, c, n) == [type |-> m.type, json |-> m.json, id |-> m.id,
                   method |-> m.method, ws |-> c, n |-> n]

idle == [op |-> "none", pc |-> "idle", ws |-> "none", id |-> NoId,
         exc |-> "none", got |-> NoMsg, args |-> <<>>]

Init ==
    /\ auth \in {None, "Auth"}
    /\ id = 0
    /\ ws_responses = [ids |-> <<>>, streams |-> <<>>]
    /\ sock = [c \in Conns |-> [state |-> "unopened", inbound |-> <<>>]]
    /\ sent = [c \in Conns |-> <<>>]
    /\ listener = [c \in Conns |-> [pc |-> "none", ws |-> "none", exc |-> "none"]]
    /\ task = [t \in Tasks |-> idle]
    /\ http = <<>>
    /\ readers = [c \in Conns |-> {}]
    /\ routed = <<>>
    /\ nframes = 0

\* ------------------------------------------------------------ defaultdict
\* self.ws_responses is one defaultdict(Queue) keyed by request ids (int) and
\* by stream names (str).  An int never equals a str, so the dict is held as
\* two maps, "ids" and "streams"; kind says which of the two a key is in.
\* self.ws_responses[key]: the queue at key, empty when the key is missing
getitem(d, kind, key) == IF key \in DOMAIN d[kind] THEN d[kind][key] ELSE <<>>

\* q = self.ws_responses[key]: a missing key is inserted with an empty Queue
touch(d, kind, key) ==
    [d EXCEPT ![kind] = [k \in DOMAIN d[kind] \cup {key} |-> getitem(d, kind, k)]]

\* await self.ws_responses[key].put(message)
put(d, kind, key, message) ==
    [d EXCEPT ![kind] = [k \in DOMAIN d[kind] \cup {key} |->
        IF k = key THEN Append(getitem(d, kind, key), message)
                   ELSE d[kind][k]]]

\* the queue at key without its first item (the effect of q.get())
get(d, kind, key) == [d EXCEPT ![kind][key] = Tail(d[kind][key])]

\* ------------------------------------------------------------- connection
\* the coroutines suspended in ws.receive() of connection c
waiting(c) ==
    (IF listener[c].pc = "receive" THEN {"listener"} ELSE {})
        \cup {t \in Tasks : task[t].pc = "reading" /\ task[t].ws = c}

alive(c) == listener[c].pc \in {"created", "receive"}

usable(c) == sock[c].state \in {"open", "peer_closed"}

\* WSListenerContext.__aenter__ on the context websocket_context() returns:
\* the socket is connected and the listener task is created with self.ws,
\* the object ws_connect() returned, not with the connected websocket
aenter(c) ==
    /\ sock[c].state = "unopened"
    /\ \A b \in Conns : ConnOrder[b] < ConnOrder[c] => sock[b].state # "unopened"
    /\ sock' = [sock EXCEPT ![c].state = "open"]
    /\ listener' = [listener EXCEPT ![c] =
                       [pc |-> "created", ws |-> "ws_connect", exc |-> "none"]]
    /\ UNCHANGED <<auth, id, ws_responses, sent, task, http, readers, routed, nframes>>

\* __aexit__ without line 123: the socket is closed, the task is left alone
aexit_close_only(c) ==
    /\ usable(c)
    /\ sock' = [sock EXCEPT ![c] = [state |-> "closed", inbound |-> <<>>]]
    /\ UNCHANGED <<auth, id, ws_responses, sent, listener, task, http, readers,
                   routed, nframes>>

\* WSListenerContext.__aexit__: self.task.cancel() ends the task __aenter__
\* created, if it has not ended yet (a listener the application started
\* itself is not self.task); then the socket is closed
aexit(c) ==
    /\ usable(c)
    /\ listener' = [listener EXCEPT ![c].pc =
                       IF alive(c) /\ listener[c].ws = "ws_connect"
                         THEN "cancelled" ELSE listener[c].pc]
    /\ sock' = [sock EXCEPT ![c] = [state |-> "closed", inbound |-> <<>>]]
    /\ UNCHANGED <<auth, id, ws_responses, sent, task, http, readers, routed, nframes>>

\* the application runs ws_listener(ws) as a task on a connected websocket
\* that has no live listener (once per connection)
ws_listener_call(c) ==
    /\ usable(c)
    /\ ~alive(c)
    /\ listener[c].ws # "websocket"
    /\ listener' = [listener EXCEPT ![c] =
                       [pc |-> "created", ws |-> "websocket", exc |-> "none"]]
    /\ UNCHANGED <<auth, id, ws_responses, sock, sent, task, http, readers, routed, nframes>>

\* the peer: one more message arrives on connection c; nothing follows a
\* CLOSED or ERROR message
peer_send(c) ==
    /\ sock[c].state = "open"
    /\ nframes < MaxFrames
    /\ \E m \in PeerMsgs :
        /\ sock' = [sock EXCEPT
               ![c].inbound = Append(@, stamp(m, c, nframes + 1)),
               ![c].state = IF m.type \in {"CLOSED", "ERROR"} THEN "peer_closed" ELSE @]
    /\ nframes' = nframes + 1
    /\ UNCHANGED <<auth, id, ws_responses, sent, listener, task, http, readers, routed>>

\* ------------------------------------------------------------ ws_listener
\* ws_listener with the names of lines 186-187 bound as they were meant
\* (message, subscriptions): the `if` of line 186 also runs for a response
route_bound(d, message) ==
    LET d1 == IF message.id # NoId THEN put(d, "ids", message.id, message) ELSE d
        hit == {s \in StreamNames : message.method \in subscriptions[s].methods}
    IN [ws_responses |-> IF hit = {} THEN d1
                         ELSE put(d1, "streams", CHOOSE s \in hit : TRUE, message),
        exc |-> "none"]

\* lines 184-189 of ws_listener for a parsed message: the response is put on
\* the queue of its id; the test of line 186 then reads the name
\* `notification`, which is bound nowhere, and raises NameError
route(d, message) ==
    [ws_responses |-> IF message.id # NoId THEN put(d, "ids", message.id, message)
                                          ELSE d,
     exc |-> "NameError"]

\* the first ws.receive() of the task: the object ws_connect() returns has no
\* receive attribute; a websocket on which another coroutine is suspended in
\* receive() refuses a second reader
listener_begin(c) ==
    /\ listener[c].pc = "created"
    /\ listener' = [listener EXCEPT ![c] =
           IF listener[c].ws = "ws_connect"
             THEN [@ EXCEPT !.pc = "raised", !.exc = "AttributeError"]
           ELSE IF waiting(c) # {}
             THEN [@ EXCEPT !.pc = "raised", !.exc = "RuntimeError"]
           ELSE [@ EXCEPT !.pc = "receive"]]
    /\ readers' = [readers EXCEPT ![c] =
           IF listener[c].ws = "websocket" THEN @ \cup {"listener"} ELSE @]
    /\ UNCHANGED <<auth, id, ws_responses, sock, sent, task, http, routed, nframes>>

\* what ws.receive() returns: the next message of the socket, and the CLOSED
\* message on a websocket that has been closed
receive(c) ==
    IF sock[c].inbound # <<>> THEN Head(sock[c].inbound)
    ELSE [type |-> "CLOSED", json |-> "none", id |-> NoId, method |-> NoField,
          ws |-> c, n |-> 0]

\* a ws_get call that was given id n has not got its response yet
pending(n) == \E t \in Tasks : task[t].id = n /\ task[t].pc \in {"sent", "waiting"}

\* one iteration of the loop of ws_listener: ws.receive() returns the next
\* message, the message is handled, and the loop is back in ws.receive()
ws_listener(c) ==
    /\ listener[c].pc = "receive"
    /\ sock[c].inbound # <<>> \/ sock[c].state = "closed"
    /\ LET msg == receive(c)
           r == route(ws_responses, msg)
       IN /\ sock' = [sock EXCEPT ![c].inbound = IF @ = <<>> THEN @ ELSE Tail(@)]
          /\ IF msg.type = "TEXT" /\ msg.json = "malformed"
               THEN /\ listener' = [listener EXCEPT ![c].pc = "raised",
                                                    ![c].exc = "JSONDecodeError"]
                    /\ UNCHANGED <<ws_responses, routed>>
             ELSE IF msg.type = "TEXT"
               THEN /\ ws_responses' = r.ws_responses
                    /\ routed' = Append(routed, [msg |-> msg, pending |-> pending(msg.id)])
                    /\ listener' = [listener EXCEPT
                           ![c].pc = IF r.exc = "none" THEN "receive" ELSE "raised",
                           ![c].exc = r.exc]
             ELSE IF msg.type \in {"ERROR", "CLOSED"}
               THEN /\ listener' = [listener EXCEPT ![c].pc = "returned"]
                    /\ UNCHANGED <<ws_responses, routed>>
             ELSE UNCHANGED <<ws_responses, routed, listener>>
    /\ UNCHANGED <<auth, id, sent, task, http, readers, nframes>>

\* ------------------------------------------------------------------ ws_get
\* outcome of the part of an operation that runs up to its first suspension:
\* the exception it raises, the frame it writes, the HTTP request it issues,
\* whether it took an id from self.id, and where it is suspended
raises(e) == [exc |-> e, frame |-> NoFrame, req |-> NoReq, takes |-> FALSE,
              pc |-> "raised"]
writes(f, where) == [exc |-> "none", frame |-> f, req |-> NoReq,
                     takes |-> where = "sent", pc |-> where]
requests(r) == [exc |-> "none", frame |-> NoFrame, req |-> r, takes |-> FALSE,
                pc |-> "http"]

\* a counter that is not advanced
next_same(n) == n

\* next(self.id) on itertools.count(): the counter after handing out n
next(n) == n + 1

\* lines 172-173 of ws_get: message['id'] = next(self.id); ws.send_str(...)
ws_get_send(message, n) ==
    writes([method |-> message.method, params |-> message.params, id |-> n], "sent")

\* task t can start a call; tasks are interchangeable, so they start in order
free(t) ==
    /\ task[t].pc = "idle"
    /\ \A u \in Tasks : TaskOrder[u] < TaskOrder[t] => task[u].pc # "idle"

\* the state after task t has run operation op with outcome out; c is the
\* connected websocket the operation is given, "none" for a REST operation
run(t, c, op, args, out) ==
    /\ c \in Conns => usable(c)
    /\ out.takes => id < MaxRequests
    /\ task' = [task EXCEPT ![t] =
           [op |-> op, pc |-> out.pc, ws |-> c, exc |-> out.exc, got |-> NoMsg,
            id |-> IF out.takes THEN id ELSE NoId, args |-> args]]
    /\ id' = IF out.takes THEN next(id) ELSE id
    /\ sent' = IF out.frame # NoFrame
                 THEN [sent EXCEPT ![c] = Append(@, out.frame)] ELSE sent
    /\ http' = IF out.req # NoReq THEN Append(http, out.req) ELSE http
    /\ UNCHANGED <<auth, ws_responses, sock, listener, readers, routed, nframes>>

\* ws_get(ws, message) called by the application, up to send_str
ws_get(t, c) ==
    /\ free(t)
    /\ run(t, c, "ws_get", <<>>,
           ws_get_send([method |-> "getMarkets", params |-> NoParams], id))

\* line 174 of ws_get and the start of q.get(): the Queue of the id is looked
\* up in the defaultdict, which inserts it when the listener has not
ws_get_wait(t) ==
    /\ task[t].pc = "sent"
    /\ ws_responses' = touch(ws_responses, "ids", task[t].id)
    /\ task' = [task EXCEPT ![t].pc = "waiting"]
    /\ UNCHANGED <<auth, id, sock, sent, listener, http, readers, routed, nframes>>

\* lines 176-177 of ws_get once q.get() has returned msg: the expression
\* self.ws_responses.pop[...] subscripts the bound method pop and raises
\* TypeError; nothing is popped and nothing is returned
ws_get_finish(d, key, msg) ==
    [ws_responses |-> d, exc |-> "TypeError", pc |-> "raised"]

\* q.get() returns the first message of the queue, then lines 176-177
ws_get_wake(t) ==
    /\ task[t].pc = "waiting"
    /\ getitem(ws_responses, "ids", task[t].id) # <<>>
    /\ LET msg == Head(ws_responses.ids[task[t].id])
           r == ws_get_finish(get(ws_responses, "ids", task[t].id), task[t].id, msg)
       IN /\ ws_responses' = r.ws_responses
          /\ task' = [task EXCEPT ![t].pc = r.pc, ![t].exc = r.exc, ![t].got = msg]
    /\ UNCHANGED <<auth, id, sock, sent, listener, http, readers, routed, nframes>>

\* ------------------------------------- operations that read the socket
\* `msg = await ws.receive()` in an operation that has written its frame
\* (ws_cancel_order, ws_get_active_orders, unsubscribe_ticker, ...): a second
\* reader of a websocket is refused with RuntimeError
receive_call(t) ==
    /\ task[t].pc = "written"
    /\ readers' = [readers EXCEPT ![task[t].ws] = @ \cup {t}]
    /\ task' = [task EXCEPT ![t] =
           IF waiting(task[t].ws) # {}
             THEN [@ EXCEPT !.pc = "raised", !.exc = "RuntimeError"]
             ELSE [@ EXCEPT !.pc = "reading"]]
    /\ UNCHANGED <<auth, id, ws_responses, sock, sent, listener, http, routed, nframes>>

\* ws.receive() returns the next message to the operation: `return msg.json()`
receive_return(t) ==
    /\ task[t].pc = "reading"
    /\ sock[task[t].ws].inbound # <<>>
    /\ LET msg == Head(sock[task[t].ws].inbound)
       IN /\ sock' = [sock EXCEPT ![task[t].ws].inbound = Tail(@)]
          /\ task' = [task EXCEPT ![t] =
                 IF msg.type = "TEXT" /\ msg.json = "malformed"
                   THEN [@ EXCEPT !.pc = "raised", !.exc = "JSONDecodeError", !.got = msg]
                 ELSE IF msg.type \in {"ERROR", "CLOSED"}
                   THEN [@ EXCEPT !.pc = "raised", !.exc = "TypeError", !.got = msg]
                 ELSE [@ EXCEPT !.pc = "returned", !.got = msg]]
    /\ UNCHANGED <<auth, id, ws_responses, sent, listener, http, readers, routed, nframes>>

\* ------------------------------------------------------------------ facade
\* the decorator without its assertion
private_unchecked(self_auth, func) == func

\* the decorator private: the assertion on args[0].auth, then the function
private(self_auth, func) ==
    IF self_auth = None THEN raises("AssertionError") ELSE func

\* pop_none(params): every key whose value is falsy is popped
pop_none(params) ==
    [k \in {key \in DOMAIN params : ~falsy(params[key])} |-> params[k]]

\* Python's a ^ b: defined for two ints, TypeError for None and for str
xor(a, b) ==
    IF a \in {"0", "1"} /\ b \in {"0", "1"}
      THEN (IF a = b THEN "0" ELSE "1")
      ELSE "TypeError"

\* line 287 of ws_cancel_order,
\*   assert order_id is not None ^ user_provided_id is not None
\* ^ binds tighter than `is not`, so this is the chained comparison
\*   order_id is not (None ^ user_provided_id) is not None
cancel_assert(order_id, user_provided_id) ==
    LET x == xor(None, user_provided_id)
    IN IF x = "TypeError" THEN "TypeError"
       ELSE IF order_id # x /\ x # None THEN "none"
       ELSE "AssertionError"

ws_login_body(n) ==
    ws_get_send([method |-> "login",
                 params |-> [algo |-> "HS256", pKey |-> "access_key",
                             nonce |-> "nonce", signature |-> "sign(nonce)"]], n)

\* line 268 calls self.ws_get(json.dumps(message)) without ws: the call
\* raises TypeError for the missing argument `message`
ws_create_order_body(args) ==
    raises("TypeError")

ws_cancel_order_body(args) ==
    LET a == cancel_assert(args.order_id, args.user_provided_id)
    IN IF a # "none" THEN raises(a)
       ELSE writes([method |-> "cancelOrder", id |-> NoId,
                    params |-> pop_none([orderId |-> args.order_id,
                                         userProvidedId |-> args.user_provided_id])],
                   "written")

ws_get_active_orders_body(args) ==
    writes([method |-> "getOrders", id |-> NoId,
            params |-> pop_none([symbol |-> args.symbol])], "written")

unsubscribe_ticker_body(args) ==
    writes([method |-> "unsubscribeTicker", id |-> NoId,
            params |-> [symbol |-> args.symbol]], "written")

\* lines 525-528: the assertion on self.auth, then ws_stream_generator is
\* called with three positional arguments where it takes two: TypeError
ws_subscribe_reports_generator_body(self_auth) ==
    IF self_auth = None THEN raises("AssertionError") ELSE raises("TypeError")

\* lines 682-690: the params dict of create_order
create_order_params(args) ==
    [userProvidedId |-> args.user_provided_id, symbol |-> args.symbol,
     side |-> args.side, type |-> args.order_type, quantity |-> args.quantity,
     price |-> args.price, strictValidate |-> args.strict_validate]

create_order_body(args) ==
    IF args.order_type \in {None, "limit"} /\ args.price = None
      THEN raises("AssertionError")
      ELSE requests([verb |-> "POST", path |-> "/createorder",
                     data |-> pop_none(create_order_params(args))])

\* line 758: the params dict of get_deposits
get_deposits_params(args) ==
    [ticker |-> args.ticker, limit |-> args.limit, skip |-> args.skip]

\* line 760 returns self.get(path, params) without awaiting it: the caller is
\* handed the coroutine, and nothing is requested until that is awaited
get_deposits_body(args) ==
    [exc |-> "none", frame |-> NoFrame, req |-> NoReq, takes |-> FALSE,
     pc |-> "coroutine"]

\* the GET that the coroutine get_deposits returned issues: params after
\* pop_none (line 759)
get_deposits_request(args) ==
    [verb |-> "GET", path |-> "/getdeposits",
     data |-> pop_none(get_deposits_params(args))]

get_balances_body ==
    requests([verb |-> "GET", path |-> "/balances", data |-> NoParams])

\* argument values the application passes
OrderArgs == [symbol : {"XRG/LTC"}, side : {"buy"}, quantity : {"1"},
              price : {None, "0.1"}, order_type : {None, "limit", "market"},
              user_provided_id : {None}, strict_validate : {None, "False"}]
DepositArgs == [limit : {"10"}, skip : {"0", "5"}, ticker : {None, "XRG"}]
CancelArgs == [order_id : {None, "42"}, user_provided_id : {None, "my-1"}]
SymbolArgs == [symbol : {None, "XRG/LTC"}]

ws_login(t, c) ==
    /\ free(t)
    /\ run(t, c, "ws_login", <<>>, private(auth, ws_login_body(id)))

ws_create_order(t, c) ==
    /\ free(t)
    /\ \E args \in OrderArgs :
        run(t, c, "ws_create_order", args, private(auth, ws_create_order_body(args)))

ws_cancel_order(t, c) ==
    /\ free(t)
    /\ \E args \in CancelArgs :
        run(t, c, "ws_cancel_order", args, private(auth, ws_cancel_order_body(args)))

ws_get_active_orders(t, c) ==
    /\ free(t)
    /\ \E args \in SymbolArgs :
        run(t, c, "ws_get_active_orders", args,
            private(auth, ws_get_active_orders_body(args)))

unsubscribe_ticker(t, c) ==
    /\ free(t)
    /\ \E args \in [symbol : {"XRG/LTC"}] :
        run(t, c, "unsubscribe_ticker", args, unsubscribe_ticker_body(args))

ws_subscribe_reports_generator(t, c) ==
    /\ free(t)
    /\ run(t, c, "ws_subscribe_reports_generator", <<>>,
           ws_subscribe_reports_generator_body(auth))

create_order(t) ==
    /\ free(t)
    /\ \E args \in OrderArgs :
        run(t, "none", "create_order", args, private(auth, create_order_body(args)))

get_deposits(t) ==
    /\ free(t)
    /\ \E args \in DepositArgs :
        run(t, "none", "get_deposits", args, private(auth, get_deposits_body(args)))

\* the application awaits the coroutine that get_deposits handed it
await_coroutine(t) ==
    /\ task[t].pc = "coroutine"
    /\ task' = [task EXCEPT ![t].pc = "http"]
    /\ http' = Append(http, get_deposits_request(task[t].args))
    /\ UNCHANGED <<auth, id, ws_responses, sock, sent, listener, readers, routed,
                   nframes>>

get_balances(t) ==
    /\ free(t)
    /\ run(t, "none", "get_balances", <<>>, private(auth, get_balances_body))

\* operations declared with @private, and those that check self.auth inline
PrivateOps == {"ws_login", "ws_create_order", "ws_cancel_order",
               "ws_get_active_orders", "create_order", "get_balances",
               "get_deposits",
               "ws_subscribe_reports_generator"}

\* ----------------------------------------------------------------- streams
\* outcome of calling an async generator function: the generator object is
\* made and none of its body has run
creates == [exc |-> "none", frame |-> NoFrame, req |-> NoReq, takes |-> FALSE,
            pc |-> "generator"]

\* ws.send_str(data): a str is written to the socket, any other object is
\* refused with TypeError
send_str(data, is_str, where) ==
    IF is_str THEN writes(data, where) ELSE raises("TypeError")

\* the call self.ws_stream_generator(...) with the positional arguments given
\* after self: the signature (self, ws, stream, **params) takes two
ws_stream_generator_call(positional) ==
    IF Len(positional) > 2 THEN raises("TypeError") ELSE creates

\* lines 213-214, run by the first __anext__: the dict that the message entry
\* of the stream builds from params is handed to send_str as it is
ws_stream_generator_body(stream, params) ==
    send_str([method |-> subscriptions[stream].message, id |-> NoId,
              params |-> params], FALSE, "consuming")

\* lines 443-448: the subscribe message with falsy params popped, then the
\* call of ws_stream_generator with ws, the dumped message and the methods
subscribe_orderbook_generator_body(args) ==
    LET message == [method |-> "subscribeOrderbook", id |-> NoId,
                    params |-> pop_none([symbol |-> args.symbol,
                                         limit |-> args.limit])]
    IN ws_stream_generator_call(<<"ws", message,
                                  <<"snapshotOrderbook", "updateOrderbook">> >>)

\* streams the application opens, with the keyword arguments of their message
StreamArgs ==
    [stream : {"ticker"}, params : [symbol : {"XRG/LTC"}]]
        \cup [stream : {"orderbook"}, params : [symbol : {"XRG/LTC"}, limit : {"10"}]]
OrderbookArgs == [symbol : {"XRG/LTC"}, limit : {None, "10"}]

\* ws_stream_generator(ws, stream, **params) called by the application
ws_stream_generator(t, c) ==
    /\ free(t)
    /\ \E args \in StreamArgs :
        run(t, c, "ws_stream_generator", args,
            ws_stream_generator_call(<<"ws", args.stream>>))

subscribe_orderbook_generator(t, c) ==
    /\ free(t)
    /\ \E args \in OrderbookArgs :
        run(t, c, "subscribe_orderbook_generator", args,
            subscribe_orderbook_generator_body(args))

\* the consumer asks the generator for its first item
anext(t) ==
    /\ task[t].pc = "generator"
    /\ LET out == ws_stream_generator_body(task[t].args.stream, task[t].args.params)
       IN /\ task' = [task EXCEPT ![t].pc = out.pc, ![t].exc = out.exc]
          /\ sent' = IF out.frame # NoFrame
                       THEN [sent EXCEPT ![task[t].ws] = Append(@, out.frame)]
                       ELSE sent
    /\ UNCHANGED <<auth, id, ws_responses, sock, listener, http, readers, routed,
                   nframes>>

\* the consumer stops consuming: its generator is closed or dropped, before
\* its first item, while it is suspended, or after it has raised; the body
\* has no try/finally, so nothing of the client is touched
aclose(t) ==
    /\ task[t].op = "ws_stream_generator"
    /\ task[t].pc \in {"generator", "consuming", "raised"}
    /\ task' = [task EXCEPT ![t].pc = "closed"]
    /\ UNCHANGED <<auth, id, ws_responses, sock, sent, listener, http, readers,
                   routed, nframes>>

\* ---------------------------------------------------------- specifications
\* the multiplexer on one connection: the listener, the peer and ws_get
MuxConns == {"c1"}

Next ==
    \/ \E c \in MuxConns : aenter(c)
    \/ \E c \in MuxConns : aexit(c)
    \/ \E c \in MuxConns : ws_listener_call(c)
    \/ \E c \in MuxConns : peer_send(c)
    \/ \E c \in MuxConns : listener_begin(c)
    \/ \E c \in MuxConns : ws_listener(c)
    \/ \E t \in Tasks, c \in MuxConns : ws_get(t, c)
    \/ \E t \in Tasks : ws_get_wait(t)
    \/ \E t \in Tasks : ws_get_wake(t)

Spec == Init /\ [][Next]_vars

\* the id counter of one client over all its connections
IdNext ==
    \/ \E c \in Conns : aenter(c)
    \/ \E c \in Conns : aexit(c)
    \/ \E t \in Tasks, c \in Conns : ws_get(t, c)
    \/ \E t \in Tasks, c \in Conns : ws_login(t, c)
    \/ \E t \in Tasks : ws_get_wait(t)

IdSpec == Init /\ [][IdNext]_vars

\* the operations that read the socket themselves, beside a listener
ReaderNext ==
    \/ \E c \in MuxConns : aenter(c)
    \/ \E c \in MuxConns : ws_listener_call(c)
    \/ \E c \in MuxConns : peer_send(c)
    \/ \E c \in MuxConns : listener_begin(c)
    \/ \E c \in MuxConns : ws_listener(c)
    \/ \E t \in Tasks, c \in MuxConns : ws_get_active_orders(t, c)
    \/ \E t \in Tasks, c \in MuxConns : unsubscribe_ticker(t, c)
    \/ \E t \in Tasks : receive_call(t)
    \/ \E t \in Tasks : receive_return(t)

ReaderSpec == Init /\ [][ReaderNext]_vars

\* the facade: every operation up to its first suspension
FacadeNext ==
    \/ \E c \in Conns : aenter(c)
    \/ \E t \in Tasks, c \in Conns : ws_login(t, c)
    \/ \E t \in Tasks, c \in Conns : ws_create_order(t, c)
    \/ \E t \in Tasks, c \in Conns : ws_cancel_order(t, c)
    \/ \E t \in Tasks, c \in Conns : ws_get_active_orders(t, c)
    \/ \E t \in Tasks, c \in Conns : unsubscribe_ticker(t, c)
    \/ \E t \in Tasks, c \in Conns : ws_subscribe_reports_generator(t, c)
    \/ \E t \in Tasks : create_order(t)
    \/ \E t \in Tasks : get_balances(t)

FacadeSpec == Init /\ [][FacadeNext]_vars

\* the REST operations that pass their params through pop_none
ParamNext ==
    \/ \E t \in Tasks : create_order(t)
    \/ \E t \in Tasks : get_deposits(t)
    \/ \E t \in Tasks : await_coroutine(t)

ParamSpec == Init /\ [][ParamNext]_vars

\* the multiplexer with stream consumers beside the ws_get callers
StreamNext ==
    \/ \E c \in MuxConns : aenter(c)
    \/ \E c \in MuxConns : ws_listener_call(c)
    \/ \E c \in MuxConns : peer_send(c)
    \/ \E c \in MuxConns : listener_begin(c)
    \/ \E c \in MuxConns : ws_listener(c)
    \/ \E t \in Tasks, c \in MuxConns : ws_get(t, c)
    \/ \E t \in Tasks : ws_get_wait(t)
    \/ \E t \in Tasks : ws_get_wake(t)
    \/ \E t \in Tasks, c \in MuxConns : ws_stream_generator(t, c)
    \/ \E t \in Tasks, c \in MuxConns : subscribe_orderbook_generator(t, c)
    \/ \E t \in Tasks : anext(t)
    \/ \E t \in Tasks : aclose(t)

StreamSpec == Init /\ [][StreamNext]_vars

\* the multiplexer under the scheduling of the event loop: a coroutine that
\* can run is run; the peer and the application are not obliged to act
FairSpec ==
    /\ Spec
    /\ \A c \in MuxConns : WF_vars(listener_begin(c)) /\ WF_vars(ws_listener(c))
    /\ \A t \in Tasks : WF_vars(ws_get_wait(t)) /\ WF_vars(ws_get_wake(t))

\* ------------------------------------------------------------- properties
Range(q) == {q[i] : i \in DOMAIN q}

\* the messages held in the queues of ws_responses
queued(kind) == UNION {Range(ws_responses[kind][k]) : k \in DOMAIN ws_responses[kind]}

\* the tasks that took message m out of a queue or off the socket
takers(m) == {t \in Tasks : task[t].got = m}

\* C1: a response carrying id n is returned by ws_get to exactly one caller,
\* the caller whose request was given id n: a ws_get call that has taken a
\* message from its queue has returned it, the message carries the id of the
\* call, and no other call has taken the same message.
C1_Claim ==
    \A t \in Tasks :
        (task[t].op = "ws_get" /\ task[t].got # NoMsg) =>
            /\ task[t].pc = "returned"
            /\ task[t].got.id = task[t].id
            /\ takers(task[t].got) = {t}

\* C2: every notification (a parsed message without id) whose method is in
\* the method list of stream s is on the queue of s and on no other queue,
\* and the queue of s holds its notifications in the order of arrival.
C2_Claim ==
    /\ \A i \in DOMAIN routed : \A s \in StreamNames :
           (routed[i].msg.id = NoId /\ routed[i].msg.method \in subscriptions[s].methods) =>
               /\ routed[i].msg \in Range(getitem(ws_responses, "streams", s))
               /\ \A o \in StreamNames \ {s} :
                      routed[i].msg \notin Range(getitem(ws_responses, "streams", o))
    /\ \A s \in DOMAIN ws_responses.streams :
           \A i, j \in DOMAIN ws_responses.streams[s] :
               i < j => ws_responses.streams[s][i].n < ws_responses.streams[s][j].n

\* connection c has closed: the peer sent CLOSED or ERROR, or the websocket
\* context was left
closed(c) == c \in Conns /\ sock[c].state \in {"peer_closed", "closed"}

\* C3: after the connection has closed, no ws_get call stays suspended: a
\* call that is waiting for its response on a closed connection eventually
\* is not waiting any more.
C3_Claim ==
    \A t \in Tasks :
        (closed(task[t].ws) /\ task[t].pc \in {"sent", "waiting"})
            ~> (task[t].pc \notin {"sent", "waiting"})

\* C4: a response whose id had no pending request when the listener handled
\* it is dropped: it is kept on no queue and no caller ever takes it.
C4_Claim ==
    \A i \in DOMAIN routed :
        (routed[i].msg.id # NoId /\ ~routed[i].pending) =>
            /\ routed[i].msg \notin queued("ids") \cup queued("streams")
            /\ takers(routed[i].msg) = {}

ids(c) == [i \in DOMAIN sent[c] |-> sent[c][i].id]

\* C7 as stated: the first request of every connection has id 0.
C7_Claim ==
    \A c \in Conns : sent[c] # <<>> => sent[c][1].id = 0

\* C7 amended: the ids come from one counter of the client, shared by its
\* connections: the ids handed out so far are exactly 0 .. id-1, each handed
\* out once (so the first request of the client has id 0 and no two requests
\* have the same id), and on every connection a later request has a larger id.
C7_Thm ==
    /\ UNION {Range(ids(c)) : c \in Conns} = 0 .. id - 1
    /\ \A c, b \in Conns : \A i \in DOMAIN sent[c], j \in DOMAIN sent[b] :
           (c # b \/ i # j) => sent[c][i].id # sent[b][j].id
    /\ \A c \in Conns : \A i, j \in DOMAIN sent[c] :
           i < j => sent[c][i].id < sent[c][j].id
    /\ \A t \in Tasks : task[t].pc \in {"sent", "waiting"} =>
           \E i \in DOMAIN sent[task[t].ws] : sent[task[t].ws][i].id = task[t].id

\* two requests have been written, on two connections
C7_Witness ==
    /\ id = 2
    /\ \A c \in Conns : sent[c] # <<>>

\* C5: while the listener of a connection is suspended in ws.receive(), no
\* operation of the client has called ws.receive() on that connection.
C5_Claim ==
    \A c \in Conns : listener[c].pc = "receive" => readers[c] \subseteq {"listener"}

\* C8: without credentials a call of a private operation raises the
\* assertion error of the auth check, writes no frame and issues no request.
C8_Thm ==
    [][auth = None =>
         \A t \in Tasks :
             (task[t].pc = "idle" /\ task'[t].op \in PrivateOps) =>
                 /\ task'[t].pc = "raised"
                 /\ task'[t].exc = "AssertionError"
                 /\ sent' = sent
                 /\ http' = http]_vars

\* without credentials, every task has called a private operation and was
\* refused, a REST operation among them
C8_Witness ==
    /\ auth = None
    /\ \A t \in Tasks : task[t].op \in PrivateOps /\ task[t].exc = "AssertionError"
    /\ \E t \in Tasks : task[t].op = "get_balances"

given(args) == Cardinality({k \in {"order_id", "user_provided_id"} : args[k] # None})

\* C9: with credentials, ws_cancel_order raises its precondition error and
\* writes nothing when not exactly one identifier is given, and writes the
\* cancelOrder frame when exactly one is given.
C9_Claim ==
    auth # None =>
        \A t \in Tasks : task[t].op = "ws_cancel_order" =>
            IF given(task[t].args) # 1
              THEN task[t].pc = "raised" /\ task[t].exc = "AssertionError"
              ELSE /\ task[t].pc = "written"
                   /\ \E i \in DOMAIN sent[task[t].ws] :
                          sent[task[t].ws][i].method = "cancelOrder"

\* C10: with credentials, create_order and ws_create_order called with
\* order_type None or "limit" and price None raise the precondition error.
C10_Claim ==
    auth # None =>
        \A t \in Tasks :
            (/\ task[t].op \in {"create_order", "ws_create_order"}
             /\ task[t].args.order_type \in {None, "limit"}
             /\ task[t].args.price = None) =>
                task[t].pc = "raised" /\ task[t].exc = "AssertionError"


\* a stream consumer has stopped consuming
stopped(t) == task[t].op = "ws_stream_generator" /\ task[t].pc = "closed"

\* C11: when the consumer of a stream stops consuming, the queues of
\* ws_responses and every other caller are left as they were, and the others
\* still receive what is routed to them afterwards: once a consumer has
\* stopped, a notification that the listener routes for a stream is put on the
\* queue of that stream, a response it routes for a pending request is put on
\* the queue of its id, and a ws_get call that takes its response returns it.
C11_Claim ==
    [][/\ \A t \in Tasks :
            (stopped(t)' /\ ~stopped(t)) =>
                /\ ws_responses' = ws_responses
                /\ \A u \in Tasks \ {t} : task'[u] = task[u]
       /\ (\E d \in Tasks : stopped(d)) =>
            /\ Len(routed') > Len(routed) =>
                   LET m == routed'[Len(routed')].msg
                   IN /\ \A s \in StreamNames :
                             (m.id = NoId /\ m.method \in subscriptions[s].methods) =>
                                 m \in Range(getitem(ws_responses', "streams", s))
                      /\ (m.id # NoId /\ pending(m.id)) =>
                             m \in Range(getitem(ws_responses', "ids", m.id))
            /\ \A t \in Tasks :
                   (task[t].op = "ws_get" /\ task[t].got = NoMsg
                        /\ task'[t].got # NoMsg) =>
                       task'[t].pc = "returned"]_vars

\* the params a subscribe frame carries for the arguments args: those that
\* are not None
given_params(args) == [k \in {a \in DOMAIN args : args[a] # None} |-> args[k]]

\* C12: a subscribe_orderbook_generator call does not raise, and once its
\* generator has been advanced exactly one subscribe frame of the call is on
\* the socket, with method subscribeOrderbook and the params that were not
\* None (symbol "XRG/LTC" alone when no limit is given).
C12_Claim ==
    \A t \in Tasks :
        task[t].op = "subscribe_orderbook_generator" =>
            /\ task[t].pc # "raised"
            /\ task[t].pc # "generator" =>
                   \E i \in DOMAIN sent[task[t].ws] :
                       /\ sent[task[t].ws][i].method = "subscribeOrderbook"
                       /\ sent[task[t].ws][i].params = given_params(task[t].args)
                       /\ Cardinality({j \in DOMAIN sent[task[t].ws] :
                              sent[task[t].ws][j].method = "subscribeOrderbook"})
                            = Cardinality({u \in Tasks :
                                /\ task[u].op = "subscribe_orderbook_generator"
                                /\ task[u].ws = task[t].ws
                                /\ task[u].pc # "generator"})

\* C13: handling a message never ends the receive loop other than by a
\* CLOSED or ERROR message or by cancellation: after a malformed frame, a
\* response with an unmatched id or a notification of a method that no stream
\* lists, the listener is receiving again.
C13_Claim ==
    [][\A c \in Conns :
          (listener[c].pc = "receive" /\ listener'[c].pc # "receive") =>
              \/ listener'[c].pc = "cancelled"
              \/ /\ listener'[c].pc = "returned"
                 /\ receive(c).type \in {"CLOSED", "ERROR"}]_vars

\* the responses the listener has routed that carry the id of the call of t
responses(t) ==
    {routed[i].msg : i \in {j \in DOMAIN routed : routed[j].msg.id = task[t].id}}

\* C14: no response is lost between the write of a request and the
\* registration of its slot: a response with the id of a ws_get call that the
\* listener has routed is on the queue of that id until the call takes it,
\* also when it was routed before the call looked its queue up, and a call
\* that is no longer waiting has returned the response with its id.
C14_Claim ==
    \A t \in Tasks :
        (task[t].op = "ws_get" /\ task[t].pc # "idle") =>
            /\ (task[t].pc \in {"sent", "waiting"} /\ responses(t) # {}) =>
                   responses(t) \subseteq Range(getitem(ws_responses, "ids", task[t].id))
            /\ task[t].pc \notin {"sent", "waiting"} =>
                   /\ task[t].pc = "returned"
                   /\ task[t].got \in responses(t)

\* C15: every integer key of ws_responses is the id of a ws_get call that is
\* still waiting for its response: no key is left by a call that has taken
\* its response, and none by a response with an unmatched id.
C15_Claim ==
    \A k \in DOMAIN ws_responses.ids :
        \E t \in Tasks :
            /\ task[t].op = "ws_get"
            /\ task[t].id = k
            /\ task[t].pc \in {"sent", "waiting"}

\* the listener task of connection c is the one __aenter__ created
entered(c) == listener[c].ws = "ws_connect"

\* C16: entering the websocket context starts exactly one listener task, at
\* the entry and at no other time; when the socket has been closed by the
\* exit, that task is no longer alive (it was cancelled if it had not ended),
\* and from then on it takes no step and reads nothing from the socket.
C16_Thm ==
    /\ [](\A c \in Conns :
            (entered(c) /\ sock[c].state = "closed") => ~alive(c))
    /\ [][\A c \in Conns :
            /\ (sock[c].state = "unopened" /\ sock'[c].state # "unopened") =>
                   (entered(c)' /\ listener'[c].pc = "created")
            /\ (entered(c)' /\ listener'[c].pc = "created" /\ listener'[c] # listener[c]) =>
                   sock[c].state = "unopened"
            /\ (entered(c) /\ alive(c) /\ sock'[c].state = "closed") =>
                   listener'[c].pc = "cancelled"
            /\ (entered(c) /\ sock[c].state = "closed") =>
                   (listener'[c] = listener[c] /\ readers'[c] = readers[c])]_vars

\* the context was left while its listener task had not ended
C16_Witness ==
    \E c \in Conns :
        /\ sock[c].state = "closed"
        /\ entered(c)
        /\ listener[c].pc = "cancelled"

\* the params dict an operation builds from the arguments of task t
params_of(t) ==
    IF task[t].op = "create_order" THEN create_order_params(task[t].args)
    ELSE get_deposits_params(task[t].args)

\* C17: pop_none removes exactly the keys whose value is None: the request of
\* a create_order or get_deposits call carries every param that was not None
\* with its value, those that are 0, False or "" included, and no other key.
C17_Claim ==
    \A t \in Tasks :
        (task[t].op \in {"create_order", "get_deposits"} /\ task[t].pc = "http") =>
            \E i \in DOMAIN http :
                /\ http[i].path = (IF task[t].op = "create_order"
                                     THEN "/createorder" ELSE "/getdeposits")
                /\ http[i].data = given_params(params_of(t))

====
